---- MODULE Spec2Model ----
(***************************************************************************)
(* Model of electrumsv/wallet_database/storage_migration.py: the legacy    *)
(* ("1"-suffixed) write layer.  Callers build the parameter rows of one    *)
(* batched statement and post a closure over them to the single SQLite     *)
(* writer thread; the returned future resolves when the closure has run.   *)
(***************************************************************************)
EXTENDS Integers, Sequences, FiniteSets, TLC

VARIABLES
    clock,      \* the wall clock read by get_timestamp() / int(time.time())
    ncalls,     \* number of calls of the write surface begun so far
    local,      \* per caller: the frame of the call it is in
    calls,      \* the units of work accepted by post_to_thread, in acceptance order
    handle,     \* handle[i]: state of the future returned for calls[i]
    queue,      \* ids of the accepted units the writer has not taken yet
    running,    \* id of the unit the writer thread is executing, 0 when none
    store       \* the committed contents of the database, one set of rows per table

vars == <<clock, ncalls, local, calls, handle, queue, running, store>>

(***************************************************************************)
(* Bounds of the model.                                                    *)
(***************************************************************************)
MaxCalls == 2
MaxBatch == 2
MaxClock == 1

Callers == {"c1", "c2"}

None == [t |-> "none"]

\* Sequences over S of length lo..hi.
SeqsBetween(S, lo, hi) == UNION {[1..n -> S] : n \in lo..hi}

(***************************************************************************)
(* The store: tables and their primary keys.                               *)
(***************************************************************************)
Tables == {"Accounts", "KeyInstances", "MasterKeys", "PaymentRequests",
           "TransactionOutputs", "Transactions", "WalletData"}

EmptyStore == [tb \in Tables |-> {}]

PrimaryKey(table, row) ==
    CASE table = "Accounts"           -> <<row.account_id>>
      [] table = "KeyInstances"       -> <<row.keyinstance_id>>
      [] table = "MasterKeys"         -> <<row.masterkey_id>>
      [] table = "PaymentRequests"    -> <<row.paymentrequest_id>>
      [] table = "TransactionOutputs" -> <<row.tx_hash, row.tx_index>>
      [] table = "Transactions"       -> <<row.tx_hash>>
      [] table = "WalletData"         -> <<row.key>>

\* One INSERT of executemany: a row whose primary key is taken aborts the statement.
RECURSIVE InsertMany(_, _, _)
InsertMany(db, table, rows) ==
    IF rows = <<>> THEN [ok |-> TRUE, db |-> db, err |-> "none"]
    ELSE IF \E r \in db[table] : PrimaryKey(table, r) = PrimaryKey(table, Head(rows))
         THEN [ok |-> FALSE, db |-> db, err |-> "IntegrityError"]
         ELSE InsertMany([db EXCEPT ![table] = @ \cup {Head(rows)}], table, Tail(rows))

\* The statement without its WHERE: every row takes the value and the date.
RECURSIVE UpdateMany_all(_, _)
UpdateMany_all(db, rows) ==
    IF rows = <<>> THEN [ok |-> TRUE, db |-> db, err |-> "none"]
    ELSE UpdateMany_all(
            [db EXCEPT !["WalletData"] =
                {[r EXCEPT !.value = Head(rows).value,
                           !.date_updated = Head(rows).date_updated] : r \in @}],
            Tail(rows))

\* The statement with the wrong column: SET value=?, date_created=? WHERE key=?
RECURSIVE UpdateMany_created(_, _)
UpdateMany_created(db, rows) ==
    IF rows = <<>> THEN [ok |-> TRUE, db |-> db, err |-> "none"]
    ELSE UpdateMany_created(
            [db EXCEPT !["WalletData"] =
                {IF r.key = Head(rows).key
                 THEN [r EXCEPT !.value = Head(rows).value,
                                !.date_created = Head(rows).date_updated]
                 ELSE r : r \in @}],
            Tail(rows))

\* One UPDATE WalletData SET value=?, date_updated=? WHERE key=? per parameter row.
RECURSIVE UpdateMany(_, _)
UpdateMany(db, rows) ==
    IF rows = <<>> THEN [ok |-> TRUE, db |-> db, err |-> "none"]
    ELSE UpdateMany(
            [db EXCEPT !["WalletData"] =
                {IF r.key = Head(rows).key
                 THEN [r EXCEPT !.value = Head(rows).value,
                                !.date_updated = Head(rows).date_updated]
                 ELSE r : r \in @}],
            Tail(rows))

\* One INSERT OR REPLACE of executemany: a row with the same primary key is replaced.
RECURSIVE ReplaceMany(_, _, _)
ReplaceMany(db, table, rows) ==
    IF rows = <<>> THEN [ok |-> TRUE, db |-> db, err |-> "none"]
    ELSE ReplaceMany(
            [db EXCEPT ![table] =
                {r \in @ : PrimaryKey(table, r) # PrimaryKey(table, Head(rows))}
                    \cup {Head(rows)}],
            table, Tail(rows))

\* db.executemany(query, datas): the statement is run once per parameter row, in
\* order, and stops at the first row the store rejects.
executemany(db, query, datas) ==
    CASE query.verb = "INSERT"            -> InsertMany(db, query.table, datas)
      [] query.verb = "INSERT OR REPLACE" -> ReplaceMany(db, query.table, datas)
      [] query.verb = "UPDATE"            -> UpdateMany(db, datas)

\* A connection inside the writer's transaction: what is committed and what the
\* statements of the transaction have made of it.
Connection(db) == [committed |-> db, working |-> db]

\* A _write that catches the store's error instead of letting it reach the future.
_write_swallow(conn, unit) ==
    LET r == executemany(conn.working, unit.query, unit.datas)
    IN [ok |-> TRUE, err |-> "none", conn |-> [conn EXCEPT !.working = r.db]]

\* A _write that commits what it has written before the error leaves it.
_write_commit(conn, unit) ==
    LET r == executemany(conn.working, unit.query, unit.datas)
    IN [ok |-> r.ok, err |-> r.err, conn |-> [committed |-> r.db, working |-> r.db]]

\* def _write(db): nonlocal query, datas; db.executemany(query, datas)
_write(conn, unit) ==
    LET r == executemany(conn.working, unit.query, unit.datas)
    IN [ok |-> r.ok, err |-> r.err, conn |-> [conn EXCEPT !.working = r.db]]

(***************************************************************************)
(* Callers.                                                                *)
(***************************************************************************)
Idle == [pc |-> "idle"]

CanCall(c) == local[c].pc \in {"idle", "raised", "read"} /\ ncalls < MaxCalls

get_timestamp == clock

\* The frame of a call that built its rows and is about to call post_to_thread.
Built(op, entries, unit) ==
    [pc |-> "built", op |-> op, entries |-> entries, unit |-> unit, n |-> ncalls + 1]

\* The frame of a call that an assertion ended before post_to_thread.
Raised(op, entries) ==
    [pc |-> "raised", op |-> op, entries |-> entries, n |-> ncalls + 1]

\* The body of a call up to its "return db_context.post_to_thread(_write)".
BeginCall(c, frame) ==
    /\ CanCall(c)
    /\ local' = [local EXCEPT ![c] = frame]
    /\ ncalls' = ncalls + 1
    /\ UNCHANGED <<clock, calls, handle, queue, running, store>>

\* ---- create_accounts1 ----
accounts_datas_droplast(entries, timestamp) ==
    [i \in 1..(Len(entries) - 1) |->
        [account_id |-> entries[i].account_id,
         default_masterkey_id |-> entries[i].default_masterkey_id,
         default_script_type |-> entries[i].default_script_type,
         account_name |-> entries[i].account_name,
         date_created |-> timestamp, date_updated |-> timestamp]]

accounts_datas(entries, timestamp) ==
    [i \in 1..Len(entries) |->
        [account_id |-> entries[i].account_id,
         default_masterkey_id |-> entries[i].default_masterkey_id,
         default_script_type |-> entries[i].default_script_type,
         account_name |-> entries[i].account_name,
         date_created |-> timestamp, date_updated |-> timestamp]]

accounts_query_replace == [verb |-> "INSERT OR REPLACE", table |-> "Accounts"]

accounts_query == [verb |-> "INSERT", table |-> "Accounts"]

create_accounts1(c, entries) ==
    LET timestamp == get_timestamp
        datas == accounts_datas(entries, timestamp)
        query == accounts_query
    IN BeginCall(c, Built("create_accounts1", entries,
                          [query |-> query, datas |-> datas]))

\* ---- create_keys1 ----
keys_query == [verb |-> "INSERT", table |-> "KeyInstances"]

\* datas = [ (*t, timestamp, timestamp) for t in entries]
keys_datas(entries, timestamp) ==
    [i \in 1..Len(entries) |->
        [keyinstance_id |-> entries[i].keyinstance_id,
         account_id |-> entries[i].account_id,
         masterkey_id |-> entries[i].masterkey_id,
         derivation_type |-> entries[i].derivation_type,
         derivation_data |-> entries[i].derivation_data,
         script_type |-> entries[i].script_type,
         flags |-> entries[i].flags,
         description |-> entries[i].description,
         date_created |-> timestamp, date_updated |-> timestamp]]

create_keys1(c, entries) ==
    LET timestamp == clock
        datas == keys_datas(entries, timestamp)
    IN BeginCall(c, Built("create_keys1", entries, [query |-> keys_query, datas |-> datas]))

\* ---- create_master_keys1 ----
master_keys_query == [verb |-> "INSERT", table |-> "MasterKeys"]

master_keys_datas(entries, timestamp) ==
    [i \in 1..Len(entries) |->
        [masterkey_id |-> entries[i].masterkey_id,
         parent_masterkey_id |-> entries[i].parent_masterkey_id,
         derivation_type |-> entries[i].derivation_type,
         derivation_data |-> entries[i].derivation_data,
         date_created |-> timestamp, date_updated |-> timestamp]]

create_master_keys1(c, entries) ==
    LET timestamp == get_timestamp
        datas == master_keys_datas(entries, timestamp)
    IN BeginCall(c, Built("create_master_keys1", entries,
                          [query |-> master_keys_query, datas |-> datas]))

\* ---- create_payment_requests1 ----
payment_requests_query == [verb |-> "INSERT", table |-> "PaymentRequests"]

\* datas = [ (*t, t[-1]) for t in entries ]: date_updated is the row's date_created
payment_requests_datas(entries) ==
    [i \in 1..Len(entries) |->
        [paymentrequest_id |-> entries[i].paymentrequest_id,
         keyinstance_id |-> entries[i].keyinstance_id,
         state |-> entries[i].state,
         value |-> entries[i].value,
         expiration |-> entries[i].expiration,
         description |-> entries[i].description,
         date_created |-> entries[i].date_created,
         date_updated |-> entries[i].date_created]]

create_payment_requests1(c, entries) ==
    LET datas == payment_requests_datas(entries)
    IN BeginCall(c, Built("create_payment_requests1", entries,
                          [query |-> payment_requests_query, datas |-> datas]))

\* ---- create_transaction_outputs1 ----
transaction_outputs_query == [verb |-> "INSERT", table |-> "TransactionOutputs"]

\* The rows with the clock read again for each of them: a later row, a later time.
transaction_outputs_datas_resample(entries, timestamp) ==
    [i \in 1..Len(entries) |->
        [tx_hash |-> entries[i].tx_hash,
         tx_index |-> entries[i].tx_index,
         value |-> entries[i].value,
         keyinstance_id |-> entries[i].keyinstance_id,
         flags |-> entries[i].flags,
         date_created |-> timestamp + i - 1, date_updated |-> timestamp + i - 1]]

transaction_outputs_datas(entries, timestamp) ==
    [i \in 1..Len(entries) |->
        [tx_hash |-> entries[i].tx_hash,
         tx_index |-> entries[i].tx_index,
         value |-> entries[i].value,
         keyinstance_id |-> entries[i].keyinstance_id,
         flags |-> entries[i].flags,
         date_created |-> timestamp, date_updated |-> timestamp]]

create_transaction_outputs1(c, entries) ==
    LET timestamp == clock
        datas == transaction_outputs_datas(entries, timestamp)
    IN BeginCall(c, Built("create_transaction_outputs1", entries,
                          [query |-> transaction_outputs_query, datas |-> datas]))

(***************************************************************************)
(* TxFlags1 and create_transactions1.                                      *)
(***************************************************************************)
HasFee == 16
HasHeight == 32
HasPosition == 64
HasByteData == 4096
STATE_CLEARED == 1048576
STATE_SETTLED == 2097152

RECURSIVE BitAnd(_, _)
BitAnd(a, b) ==
    IF a = 0 \/ b = 0 THEN 0
    ELSE (a % 2) * (b % 2) + 2 * BitAnd(a \div 2, b \div 2)

RECURSIVE BitOr(_, _)
BitOr(a, b) ==
    IF a = 0 THEN b
    ELSE IF b = 0 THEN a
    ELSE (IF a % 2 = 1 \/ b % 2 = 1 THEN 1 ELSE 0) + 2 * BitOr(a \div 2, b \div 2)

\* a & ~mask
BitClear(a, mask) == a - BitAnd(a, mask)

METADATA_FIELD_MASK == BitOr(HasFee, BitOr(HasHeight, HasPosition))

\* The flags built from nothing but the metadata: flags = 0, then the three bits.
tx_flags_fresh(flags, metadata) ==
    LET f1 == IF metadata.height # None THEN HasHeight ELSE 0
        f2 == IF metadata.fee # None THEN BitOr(f1, HasFee) ELSE f1
    IN IF metadata.position # None THEN BitOr(f2, HasPosition) ELSE f2

\* The flags with each metadata bit flipped (flags ^= bit) for a field that is
\* not None, and nothing cleared first.
tx_flags_toggle(flags, metadata) ==
    LET Flip(f, bit) == IF (f \div bit) % 2 = 1 THEN f - bit ELSE f + bit
        f1 == IF metadata.height # None THEN Flip(flags, HasHeight) ELSE flags
        f2 == IF metadata.fee # None THEN Flip(f1, HasFee) ELSE f1
    IN IF metadata.position # None THEN Flip(f2, HasPosition) ELSE f2

\* The flags with the metadata bits of the caller left as they came.
tx_flags_noclear(flags, metadata) ==
    LET f1 == IF metadata.height # None THEN BitOr(flags, HasHeight) ELSE flags
        f2 == IF metadata.fee # None THEN BitOr(f1, HasFee) ELSE f1
    IN IF metadata.position # None THEN BitOr(f2, HasPosition) ELSE f2

\* flags &= ~METADATA_FIELD_MASK, then one bit per field that is not None.
tx_flags(flags, metadata) ==
    LET f0 == BitClear(flags, METADATA_FIELD_MASK)
        f1 == IF metadata.height # None THEN BitOr(f0, HasHeight) ELSE f0
        f2 == IF metadata.fee # None THEN BitOr(f1, HasFee) ELSE f1
    IN IF metadata.position # None THEN BitOr(f2, HasPosition) ELSE f2

\* The assertions without the one on the metadata's two dates.
tx_asserts_nodates(e) ==
    /\ e.tx_hash.t = "bytes" /\ e.tx_bytes # None
    /\ BitAnd(e.flags, HasByteData) = 0

\* The assertions without the one on HasByteData.
tx_asserts_noflag(e) ==
    /\ e.tx_hash.t = "bytes" /\ e.tx_bytes # None
    /\ e.tx_data.date_added # None /\ e.tx_data.date_updated # None

\* The three assertions create_transactions1 makes on an entry.
tx_asserts(e) ==
    /\ e.tx_hash.t = "bytes" /\ e.tx_bytes # None
    /\ BitAnd(e.flags, HasByteData) = 0
    /\ e.tx_data.date_added # None /\ e.tx_data.date_updated # None

transactions_query == [verb |-> "INSERT", table |-> "Transactions"]

transactions_datas(entries) ==
    [i \in 1..Len(entries) |->
        [tx_hash |-> entries[i].tx_hash,
         tx_data |-> entries[i].tx_bytes,
         flags |-> tx_flags(entries[i].flags, entries[i].tx_data),
         block_height |-> entries[i].tx_data.height,
         block_position |-> entries[i].tx_data.position,
         fee_value |-> entries[i].tx_data.fee,
         description |-> entries[i].description,
         version |-> entries[i].version,
         locktime |-> entries[i].locktime,
         date_created |-> entries[i].tx_data.date_added,
         date_updated |-> entries[i].tx_data.date_updated]]

create_transactions1(c, entries) ==
    LET query == transactions_query
    IN IF \A i \in 1..Len(entries) : tx_asserts(entries[i])
       THEN BeginCall(c, Built("create_transactions1", entries,
                [query |-> query, datas |-> transactions_datas(entries)]))
       ELSE BeginCall(c, Raised("create_transactions1", entries))

(***************************************************************************)
(* Python values and the json module.  A JSON text is held as its sequence *)
(* of tokens.                                                              *)
(***************************************************************************)
PyBool(b) == [t |-> "bool", b |-> b]
PyInt(n) == [t |-> "int", n |-> n]
PyFloat(r) == [t |-> "float", repr |-> r]
PyStr(x) == [t |-> "str", s |-> x]
PyBytes(x) == [t |-> "bytes", bs |-> x]
PyList(items) == [t |-> "list", items |-> items]
PyTuple(items) == [t |-> "tuple", items |-> items]
\* pairs: the <<key, value>> items of the dict, in insertion order.
PyDict(pairs) == [t |-> "dict", pairs |-> pairs]

Punct(x) == [k |-> "punct", s |-> x]
Lit(x) == [k |-> "lit", s |-> x]
Num(x, isfloat) == [k |-> "num", s |-> x, f |-> isfloat]
StrTok(x) == [k |-> "str", s |-> x]

IntLits == 0..9

\* What json.dumps accepts: the basic types, list, tuple, and dict whose keys are
\* str, int, float, bool or None (anything else is a TypeError).
RECURSIVE Serializable(_)
Serializable(v) ==
    CASE v.t \in {"none", "bool", "int", "float", "str"} -> TRUE
      [] v.t \in {"list", "tuple"} ->
            \A i \in 1..Len(v.items) : Serializable(v.items[i])
      [] v.t = "dict" ->
            \A i \in 1..Len(v.pairs) :
                /\ v.pairs[i][1].t \in {"none", "bool", "int", "float", "str"}
                /\ Serializable(v.pairs[i][2])
      [] OTHER -> FALSE

FloatRepr(r) ==
    IF r = "nan" THEN Lit("NaN") ELSE Num(r, TRUE)

\* The member name json.dumps writes for a dict key.
KeyString(key) ==
    CASE key.t = "str"   -> key.s
      [] key.t = "int"   -> ToString(key.n)
      [] key.t = "bool"  -> IF key.b THEN "true" ELSE "false"
      [] key.t = "none"  -> "null"
      [] key.t = "float" -> FloatRepr(key.repr).s

RECURSIVE dumps(_), DumpItems(_), DumpPairs(_)
\* json.dumps(value)
dumps(v) ==
    CASE v.t = "none"  -> <<Lit("null")>>
      [] v.t = "bool"  -> <<Lit(IF v.b THEN "true" ELSE "false")>>
      [] v.t = "int"   -> <<Num(ToString(v.n), FALSE)>>
      [] v.t = "float" -> <<FloatRepr(v.repr)>>
      [] v.t = "str"   -> <<StrTok(v.s)>>
      [] v.t \in {"list", "tuple"} -> <<Punct("[")>> \o DumpItems(v.items) \o <<Punct("]")>>
      [] v.t = "dict"  -> <<Punct("{")>> \o DumpPairs(v.pairs) \o <<Punct("}")>>

DumpItems(items) ==
    IF items = <<>> THEN <<>>
    ELSE dumps(Head(items))
            \o (IF Tail(items) = <<>> THEN <<>> ELSE <<Punct(",")>> \o DumpItems(Tail(items)))

DumpPairs(pairs) ==
    IF pairs = <<>> THEN <<>>
    ELSE <<StrTok(KeyString(Head(pairs)[1])), Punct(":")>> \o dumps(Head(pairs)[2])
            \o (IF Tail(pairs) = <<>> THEN <<>> ELSE <<Punct(",")>> \o DumpPairs(Tail(pairs)))

\* dict[key] = value: a key already present keeps its place and takes the value.
DictSet(pairs, key, value) ==
    IF \E i \in 1..Len(pairs) : pairs[i][1] = key
    THEN [i \in 1..Len(pairs) |-> IF pairs[i][1] = key THEN <<key, value>> ELSE pairs[i]]
    ELSE Append(pairs, <<key, value>>)

IsPunct(tok, x) == tok.k = "punct" /\ tok.s = x

RECURSIVE ParseValue(_), ParseItems(_, _), ParseMembers(_, _)
\* The JSON decoder: the value at the head of toks and the tokens after it.
ParseValue(toks) ==
    LET h == Head(toks)
    IN CASE h.k = "lit" ->
              [val |-> CASE h.s = "null"  -> None
                         [] h.s = "true"  -> PyBool(TRUE)
                         [] h.s = "false" -> PyBool(FALSE)
                         [] h.s = "NaN"   -> PyFloat("nan"),
               rest |-> Tail(toks)]
         [] h.k = "num" ->
              [val |-> IF h.f THEN PyFloat(h.s)
                       ELSE PyInt(CHOOSE n \in IntLits : ToString(n) = h.s),
               rest |-> Tail(toks)]
         [] h.k = "str" -> [val |-> PyStr(h.s), rest |-> Tail(toks)]
         [] IsPunct(h, "[") ->
              IF IsPunct(toks[2], "]")
              THEN [val |-> PyList(<<>>), rest |-> Tail(Tail(toks))]
              ELSE ParseItems(Tail(toks), <<>>)
         [] IsPunct(h, "{") ->
              IF IsPunct(toks[2], "}")
              THEN [val |-> PyDict(<<>>), rest |-> Tail(Tail(toks))]
              ELSE ParseMembers(Tail(toks), <<>>)

ParseItems(toks, acc) ==
    LET r == ParseValue(toks)
        items == Append(acc, r.val)
    IN IF IsPunct(Head(r.rest), ",")
       THEN ParseItems(Tail(r.rest), items)
       ELSE [val |-> PyList(items), rest |-> Tail(r.rest)]

ParseMembers(toks, acc) ==
    LET key == PyStr(toks[1].s)
        r == ParseValue(Tail(Tail(toks)))
        pairs == DictSet(acc, key, r.val)
    IN IF IsPunct(Head(r.rest), ",")
       THEN ParseMembers(Tail(r.rest), pairs)
       ELSE [val |-> PyDict(pairs), rest |-> Tail(r.rest)]

\* json.loads(text)
loads(text) == ParseValue(text).val

\* ---- create_wallet_datas1 / update_wallet_datas1 / read_wallet_data1 ----
wallet_create_query == [verb |-> "INSERT", table |-> "WalletData"]

wallet_update_query_replace == [verb |-> "INSERT OR REPLACE", table |-> "WalletData"]

wallet_update_query == [verb |-> "UPDATE", table |-> "WalletData"]

\* The value column filled from the key: data = json.dumps(entry.key).
wallet_create_rows_dumpkey(entries, timestamp) ==
    [i \in 1..Len(entries) |->
        [key |-> entries[i].key, value |-> dumps(entries[i].key),
         date_created |-> timestamp, date_updated |-> timestamp]]

\* rows.append([ entry.key, data, timestamp, timestamp])
wallet_create_rows(entries, timestamp) ==
    [i \in 1..Len(entries) |->
        [key |-> entries[i].key, value |-> dumps(entries[i].value),
         date_created |-> timestamp, date_updated |-> timestamp]]

create_wallet_datas1(c, entries) ==
    LET sql == wallet_create_query
        timestamp == get_timestamp
    IN IF \A i \in 1..Len(entries) :
             entries[i].key.t = "str" /\ Serializable(entries[i].value)
       THEN BeginCall(c, Built("create_wallet_datas1", entries,
                [query |-> sql, datas |-> wallet_create_rows(entries, timestamp)]))
       ELSE BeginCall(c, Raised("create_wallet_datas1", entries))

\* The update rows stamped with the epoch instead of the time of the call.
wallet_update_rows_epoch(entries, timestamp) ==
    [i \in 1..Len(entries) |->
        [value |-> dumps(entries[i].value), date_updated |-> 0,
         key |-> entries[i].key]]

\* rows.append((json.dumps(entry.value), timestamp, entry.key))
wallet_update_rows(entries, timestamp) ==
    [i \in 1..Len(entries) |->
        [value |-> dumps(entries[i].value), date_updated |-> timestamp,
         key |-> entries[i].key]]

update_wallet_datas1(c, entries) ==
    LET sql == wallet_update_query
        timestamp == get_timestamp
    IN IF \A i \in 1..Len(entries) : Serializable(entries[i].value)
       THEN BeginCall(c, Built("update_wallet_datas1", entries,
                [query |-> sql, datas |-> wallet_update_rows(entries, timestamp)]))
       ELSE BeginCall(c, Raised("update_wallet_datas1", entries))

\* The read without its "if row is not None": json.loads(row[0]) of no row.
read_wallet_data1_nocheck(db, key) ==
    IF \E row \in db.WalletData : row.key = key
    THEN loads((CHOOSE row \in db.WalletData : row.key = key).value)
    ELSE [t |-> "TypeError"]

\* SELECT value FROM WalletData WHERE key=?; json.loads(row[0]) or None
read_wallet_data1(db, key) ==
    IF \E row \in db.WalletData : row.key = key
    THEN loads((CHOOSE row \in db.WalletData : row.key = key).value)
    ELSE None

\* A caller's synchronous read_wallet_data1(db_context, key) on a read connection:
\* it sees the committed rows.
Read(c, key) ==
    /\ local[c].pc \in {"idle", "raised", "read"}
    /\ local' = [local EXCEPT ![c] =
                    [pc |-> "read", key |-> key, result |-> read_wallet_data1(store, key)]]
    /\ UNCHANGED <<clock, ncalls, calls, handle, queue, running, store>>

(***************************************************************************)
(* The writer: DatabaseContext.post_to_thread and the thread behind it.    *)
(***************************************************************************)
\* post_to_thread(_write): the unit is appended to the writer's queue and a
\* pending future is returned.
post_to_thread(c) ==
    /\ local[c].pc = "built"
    /\ calls' = Append(calls, [caller |-> c, op |-> local[c].op,
                               entries |-> local[c].entries, unit |-> local[c].unit,
                               n |-> local[c].n])
    /\ handle' = Append(handle, "pending")
    /\ queue' = Append(queue, Len(calls) + 1)
    /\ local' = [local EXCEPT ![c] = Idle]
    /\ UNCHANGED <<clock, ncalls, running, store>>

\* The writer thread takes the oldest queued unit.
WriterTake ==
    /\ running = 0
    /\ queue # <<>>
    /\ running' = Head(queue)
    /\ queue' = Tail(queue)
    /\ UNCHANGED <<clock, ncalls, local, calls, handle, store>>

\* The writer thread runs the unit in a transaction: commit and set_result, or
\* rollback and set_exception.
WriterRun ==
    /\ running # 0
    /\ LET r == _write(Connection(store), calls[running].unit)
       IN /\ store' = IF r.ok THEN r.conn.working ELSE r.conn.committed
          /\ handle' = [handle EXCEPT ![running] = IF r.ok THEN "ok" ELSE r.err]
    /\ running' = 0
    /\ UNCHANGED <<clock, ncalls, local, calls, queue>>

\* Time passes.  The clock is read only when a call begins, so it is left alone
\* once no further call can begin.
Tick ==
    /\ clock < MaxClock
    /\ ncalls < MaxCalls
    /\ clock' = clock + 1
    /\ UNCHANGED <<ncalls, local, calls, handle, queue, running, store>>

\* A call site that runs its _write on the connection itself instead of posting it.
Post_direct ==
    \E c \in Callers :
        /\ local[c].pc = "built"
        /\ LET r == _write(Connection(store), local[c].unit)
           IN /\ store' = IF r.ok THEN r.conn.working ELSE r.conn.committed
              /\ handle' = Append(handle, IF r.ok THEN "ok" ELSE r.err)
        /\ calls' = Append(calls, [caller |-> c, op |-> local[c].op,
                                   entries |-> local[c].entries, unit |-> local[c].unit,
                                   n |-> local[c].n])
        /\ local' = [local EXCEPT ![c] = Idle]
        /\ UNCHANGED <<clock, ncalls, queue, running>>

\* A call site that returns a future of its own making and posts nothing.
Post_unposted ==
    \E c \in Callers :
        /\ local[c].pc = "built"
        /\ calls' = Append(calls, [caller |-> c, op |-> local[c].op,
                                   entries |-> local[c].entries, unit |-> local[c].unit,
                                   n |-> local[c].n])
        /\ handle' = Append(handle, "pending")
        /\ local' = [local EXCEPT ![c] = Idle]
        /\ UNCHANGED <<clock, ncalls, queue, running, store>>

Post == \E c \in Callers : post_to_thread(c)

Init ==
    /\ clock = 0
    /\ ncalls = 0
    /\ local = [c \in Callers |-> Idle]
    /\ calls = <<>>
    /\ handle = <<>>
    /\ queue = <<>>
    /\ running = 0
    /\ store = EmptyStore

(***************************************************************************)
(* SpecAccounts: callers of create_accounts1.                              *)
(***************************************************************************)
AccountNameOf(c) == IF c = "c1" THEN "a" ELSE "b"

AccountIds(c) == IF c = "c1" THEN {1, 2} ELSE {1}

AccountRows(c) ==
    [account_id : AccountIds(c), default_masterkey_id : {None},
     default_script_type : {"P2PKH"}, account_name : {AccountNameOf(c)}]

CallCreateAccounts ==
    \E c \in Callers : \E entries \in SeqsBetween(AccountRows(c), 0, MaxBatch) :
        create_accounts1(c, entries)

NextAccounts == CallCreateAccounts \/ Post \/ WriterTake \/ WriterRun \/ Tick

SpecAccounts == Init /\ [][NextAccounts]_vars

\* The same callers while the clock stands still, and a writer thread that never
\* stops serving its queue.
NextAccountsFair == CallCreateAccounts \/ Post \/ WriterTake \/ WriterRun

SpecAccountsFair ==
    Init /\ [][NextAccountsFair]_vars /\ WF_vars(WriterTake) /\ WF_vars(WriterRun)

(***************************************************************************)
(* SpecJson: one create_wallet_datas1 of one entry, its value drawn from   *)
(* the Python values below, and a reader.                                  *)
(***************************************************************************)
JsonMaxLen == 2

K1 == PyStr("k1")
K2 == PyStr("k2")

JsonAtoms ==
    {None, PyBool(TRUE), PyInt(1), PyFloat("1.5"), PyFloat("nan"), PyStr("a"), PyStr("1")}

JsonDictKeys == {PyStr("a"), PyStr("1"), PyInt(1)}

JsonDictValues == {None, PyInt(1), PyStr("a")}

JsonLevel1 ==
    {PyList(x) : x \in SeqsBetween(JsonAtoms, 0, JsonMaxLen)}
        \cup {PyTuple(x) : x \in SeqsBetween(JsonAtoms, 1, JsonMaxLen)}
        \cup {PyDict(x) : x \in
                {y \in SeqsBetween(JsonDictKeys \X JsonDictValues, 0, JsonMaxLen) :
                    \A i \in 1..Len(y) : \A j \in 1..Len(y) : i # j => y[i][1] # y[j][1]}}

JsonLevel2 ==
    {PyList(<<x>>) : x \in JsonLevel1}
        \cup {PyList(<<PyInt(1), x>>) : x \in JsonLevel1}
        \cup {PyDict(<< <<PyStr("a"), x>> >>) : x \in JsonLevel1}

JsonValues == JsonAtoms \cup JsonLevel1 \cup JsonLevel2 \cup {PyBytes("x")}

CallCreateJson ==
    /\ ncalls = 0
    /\ \E v \in JsonValues : create_wallet_datas1("c1", <<[key |-> K1, value |-> v]>>)

ReadJson == \E key \in {K1, K2} : Read("c2", key)

NextJson == CallCreateJson \/ Post \/ WriterTake \/ WriterRun \/ ReadJson

SpecJson == Init /\ [][NextJson]_vars

(***************************************************************************)
(* SpecWalletData: callers of create_wallet_datas1 and update_wallet_datas1.*)
(* Caller c1 passes the keys k1 and k2, caller c2 the key k1 and a key that  *)
(* is no string.  A batch names each of its keys once.                      *)
(***************************************************************************)
WalletKeys(c) == IF c = "c1" THEN {K1, K2} ELSE {K1, PyInt(5)}

KeyRank(key) == IF key = K1 THEN 1 ELSE IF key = K2 THEN 2 ELSE 3

WalletBatches(entries) ==
    {b \in SeqsBetween(entries, 1, MaxBatch) :
        \A i \in 1..(Len(b) - 1) : KeyRank(b[i].key) < KeyRank(b[i + 1].key)}

WalletCreateEntries(c) == [key : WalletKeys(c), value : {PyStr("v")}]

WalletUpdateEntries(c) ==
    [key : WalletKeys(c), value : {PyStr(IF c = "c1" THEN "v2" ELSE "w2")}]

CallCreateWalletDatas ==
    \E c \in Callers : \E entries \in WalletBatches(WalletCreateEntries(c)) :
        create_wallet_datas1(c, entries)

CallUpdateWalletDatas ==
    \E c \in Callers : \E entries \in WalletBatches(WalletUpdateEntries(c)) :
        update_wallet_datas1(c, entries)

NextWalletData ==
    \/ CallCreateWalletDatas
    \/ CallUpdateWalletDatas
    \/ Post
    \/ WriterTake
    \/ WriterRun
    \/ Tick

SpecWalletData == Init /\ [][NextWalletData]_vars

\* The same callers while the clock stands still, and a writer thread that never
\* stops serving its queue.
NextWalletDataFair ==
    \/ CallCreateWalletDatas
    \/ CallUpdateWalletDatas
    \/ Post
    \/ WriterTake
    \/ WriterRun

SpecWalletDataFair ==
    Init /\ [][NextWalletDataFair]_vars /\ WF_vars(WriterTake) /\ WF_vars(WriterRun)

(***************************************************************************)
(* SpecWalletCreate: callers of create_wallet_datas1 with any batch of     *)
(* their keys, repeated keys included.                                     *)
(***************************************************************************)
WalletInsertEntries(c) ==
    [key : IF c = "c1" THEN {K1, K2} ELSE {K1, PyInt(5)},
     value : {PyStr(IF c = "c1" THEN "v" ELSE "w")}]

CallCreateWalletBatch ==
    \E c \in Callers : \E entries \in SeqsBetween(WalletInsertEntries(c), 1, MaxBatch) :
        create_wallet_datas1(c, entries)

NextWalletCreate == CallCreateWalletBatch \/ Post \/ WriterTake \/ WriterRun

SpecWalletCreate == Init /\ [][NextWalletCreate]_vars

(***************************************************************************)
(* SpecTransactions: one create_transactions1 whose batch is a run of      *)
(* well-formed entries followed by one entry drawn from TxEntries.         *)
(***************************************************************************)
RECURSIVE SetSum(_)
SetSum(S) == IF S = {} THEN 0 ELSE LET x == CHOOSE y \in S : TRUE IN x + SetSum(S \ {x})

\* Every combination of the bits TxFlags1 names, and of bit 0, which it does not.
FlagWords ==
    {SetSum(S) : S \in SUBSET {1, HasFee, HasHeight, HasPosition, HasByteData,
                               STATE_CLEARED, STATE_SETTLED}}

TxData1(height, position, fee, date_added, date_updated) ==
    [height |-> height, position |-> position, fee |-> fee,
     date_added |-> date_added, date_updated |-> date_updated]

TransactionRow1(tx_hash, tx_data, tx_bytes, flags) ==
    [tx_hash |-> tx_hash, tx_data |-> tx_data, tx_bytes |-> tx_bytes, flags |-> flags,
     description |-> None, version |-> PyInt(1), locktime |-> PyInt(0)]

TxMetadatas ==
    {TxData1(h, p, f, PyInt(1), PyInt(2)) :
        h \in {None, PyInt(7)}, p \in {None, PyInt(3)}, f \in {None, PyInt(5)}}

WellFormedTx == TransactionRow1(PyBytes("h1"), TxData1(PyInt(7), None, None, PyInt(1), PyInt(1)),
                                PyBytes("raw1"), STATE_SETTLED)

TxEntries ==
    {TransactionRow1(PyBytes("h2"), m, PyBytes("raw2"), f) : m \in TxMetadatas, f \in FlagWords}
        \cup {TransactionRow1(PyStr("h2"), m, PyBytes("raw2"), 0) : m \in TxMetadatas}
        \cup {TransactionRow1(PyBytes("h2"), m, None, 0) : m \in TxMetadatas}
        \cup {TransactionRow1(PyBytes("h2"), TxData1(None, None, None, a, u), PyBytes("raw2"), 0) :
                a \in {None, PyInt(1)}, u \in {None, PyInt(2)}}

TxBatches ==
    {pre \o <<e>> : pre \in SeqsBetween({WellFormedTx}, 0, MaxBatch - 1), e \in TxEntries}

CallCreateTransactions ==
    /\ ncalls = 0
    /\ \E entries \in TxBatches : create_transactions1("c1", entries)

NextTransactions == CallCreateTransactions \/ Post \/ WriterTake \/ WriterRun

SpecTransactions == Init /\ [][NextTransactions]_vars

(***************************************************************************)
(* Spec: the whole write surface and the reader, each operation with a few *)
(* inputs.                                                                 *)
(***************************************************************************)
KeyInstanceRows ==
    [keyinstance_id : {1}, account_id : {1}, masterkey_id : {None},
     derivation_type : {"PUBLIC_KEY_HASH"}, derivation_data : {PyBytes("d")},
     script_type : {"P2PKH"}, flags : {0}, description : {None}]

MasterKeyRows ==
    [masterkey_id : {1}, parent_masterkey_id : {None},
     derivation_type : {"BIP32"}, derivation_data : {PyBytes("d")}]

PaymentRequestRows ==
    [paymentrequest_id : {1}, keyinstance_id : {1}, state : {0}, value : {None},
     expiration : {None}, description : {None}, date_created : {0, MaxClock}]

TransactionOutputRows ==
    [tx_hash : {PyBytes("h1")}, tx_index : {0, 1}, value : {50},
     keyinstance_id : {None}, flags : {0}]

CallCreateKeys ==
    \E c \in Callers : \E entries \in SeqsBetween(KeyInstanceRows, 1, MaxBatch) :
        create_keys1(c, entries)

CallCreateMasterKeys ==
    \E c \in Callers : \E entries \in SeqsBetween(MasterKeyRows, 1, MaxBatch) :
        create_master_keys1(c, entries)

CallCreatePaymentRequests ==
    \E c \in Callers : \E entries \in SeqsBetween(PaymentRequestRows, 1, MaxBatch) :
        create_payment_requests1(c, entries)

CallCreateTransactionOutputs ==
    \E c \in Callers : \E entries \in SeqsBetween(TransactionOutputRows, 1, MaxBatch) :
        create_transaction_outputs1(c, entries)

SomeTxEntries ==
    {WellFormedTx,
     TransactionRow1(PyBytes("h2"), TxData1(None, None, PyInt(5), PyInt(1), PyInt(2)),
                     PyBytes("raw2"), HasHeight + HasByteData),
     TransactionRow1(PyStr("h2"), TxData1(None, None, None, PyInt(1), PyInt(2)),
                     None, 0)}

CallCreateSomeTransactions ==
    \E entries \in SeqsBetween(SomeTxEntries, 1, MaxBatch) :
        create_transactions1("c1", entries)

CallCreateSomeAccounts ==
    \E c \in Callers : \E entries \in SeqsBetween(AccountRows(c), 1, 1) :
        create_accounts1(c, entries)

CallCreateSomeWalletDatas ==
    \E c \in Callers : \E entries \in SeqsBetween(WalletCreateEntries(c), 1, 1) :
        create_wallet_datas1(c, entries)

CallUpdateSomeWalletDatas ==
    \E c \in Callers : \E entries \in SeqsBetween(WalletUpdateEntries(c), 1, 1) :
        update_wallet_datas1(c, entries)

ReadWalletData == \E key \in {K1, K2} : Read("c2", key)

Next ==
    \/ CallCreateSomeAccounts
    \/ CallCreateKeys
    \/ CallCreateMasterKeys
    \/ CallCreatePaymentRequests
    \/ CallCreateTransactionOutputs
    \/ CallCreateSomeTransactions
    \/ CallCreateSomeWalletDatas
    \/ CallUpdateSomeWalletDatas
    \/ ReadWalletData
    \/ Post
    \/ WriterTake
    \/ WriterRun
    \/ Tick

Spec == Init /\ [][Next]_vars

(***************************************************************************)
(* SpecCreates: the create operations that stamp their rows, under a       *)
(* clock that advances between the calls and the writer's steps.           *)
(***************************************************************************)
\* Caller c1 makes the stamped creates but create_wallet_datas1, which caller c2
\* makes with create_payment_requests1.
OutputBatches ==
    {[i \in 1..n |-> [tx_hash |-> PyBytes("h1"), tx_index |-> i - 1, value |-> 50,
                      keyinstance_id |-> None, flags |-> 0]] : n \in 1..MaxBatch}

PaymentRequestBatches ==
    {<<r>> : r \in PaymentRequestRows}
        \cup {<<[paymentrequest_id |-> 1, keyinstance_id |-> 1, state |-> 0, value |-> None,
                 expiration |-> None, description |-> None, date_created |-> MaxClock],
                [paymentrequest_id |-> 2, keyinstance_id |-> 1, state |-> 0, value |-> None,
                 expiration |-> None, description |-> None, date_created |-> 0]>>}

CallStampAccounts ==
    \E entries \in SeqsBetween(AccountRows("c2"), 1, 1) : create_accounts1("c1", entries)

CallStampKeys ==
    \E entries \in SeqsBetween(KeyInstanceRows, 1, 1) : create_keys1("c1", entries)

CallStampMasterKeys ==
    \E entries \in SeqsBetween(MasterKeyRows, 1, 1) : create_master_keys1("c1", entries)

CallStampTransactionOutputs ==
    \E entries \in OutputBatches : create_transaction_outputs1("c1", entries)

CallStampWalletDatas ==
    create_wallet_datas1("c2", <<[key |-> K1, value |-> PyStr("v")]>>)

CallCopyPaymentRequests ==
    \E entries \in PaymentRequestBatches : create_payment_requests1("c2", entries)

NextCreates ==
    \/ CallStampAccounts
    \/ CallStampKeys
    \/ CallStampMasterKeys
    \/ CallStampTransactionOutputs
    \/ CallStampWalletDatas
    \/ CallCopyPaymentRequests
    \/ Post
    \/ WriterTake
    \/ WriterRun
    \/ Tick

SpecCreates == Init /\ [][NextCreates]_vars

(***************************************************************************)
(* Claims.                                                                 *)
(***************************************************************************)
Resolved(i) == handle[i] # "pending"

\* The columns an AccountRow1 entry gives to its row.
AccountMatches(r, e) ==
    /\ r.account_id = e.account_id
    /\ r.default_masterkey_id = e.default_masterkey_id
    /\ r.default_script_type = e.default_script_type
    /\ r.account_name = e.account_name

\* Whether the batch of a unit meets a primary key twice, in db or within itself.
BatchViolates(db, unit) ==
    \E i \in 1..Len(unit.datas) :
        \/ \E r \in db[unit.query.table] :
              PrimaryKey(unit.query.table, r) = PrimaryKey(unit.query.table, unit.datas[i])
        \/ \E j \in 1..(i - 1) :
              PrimaryKey(unit.query.table, unit.datas[j])
                  = PrimaryKey(unit.query.table, unit.datas[i])

\* C1: units are executed in the order post_to_thread accepted them: when a
\* later call B is executing or has resolved, every earlier call A has resolved,
\* and the rows of every entry of a successful A are in the store.
C1_FifoOrder ==
    \A a \in 1..Len(calls) : \A b \in 1..Len(calls) :
        (a < b /\ (running = b \/ Resolved(b))) =>
            /\ Resolved(a)
            /\ running # a
            /\ handle[a] = "ok" =>
                   \A i \in 1..Len(calls[a].entries) :
                       \E r \in store.Accounts : AccountMatches(r, calls[a].entries[i])

C1_Witness ==
    \E a \in 1..Len(calls) : \E b \in 1..Len(calls) :
        /\ a < b
        /\ calls[a].caller = calls[b].caller
        /\ handle[a] = "ok" /\ handle[b] = "ok"
        /\ Len(calls[a].entries) >= 1 /\ Len(calls[b].entries) >= 1

\* C2: a unit whose batch violates uniqueness resolves its handle as failed with
\* the store's error, the writer goes on (it is free again and its queue is
\* untouched), and every unit accepted after a failed one still resolves.
C2_FailureIsolated ==
    /\ [][(running # 0 /\ running' = 0 /\ BatchViolates(store, calls[running].unit)) =>
             /\ handle'[running] = "IntegrityError"
             /\ queue' = queue
             /\ \A i \in 1..Len(calls) : i # running => handle'[i] = handle[i]]_vars
    /\ \A i \in 1..MaxCalls :
          (/\ Len(calls) >= i
           /\ handle[i] = "pending"
           /\ \E j \in 1..(i - 1) : handle[j] = "IntegrityError")
              ~> (Len(calls) >= i /\ Resolved(i))

C2_Witness ==
    \E j \in 1..Len(calls) : \E i \in 1..Len(calls) :
        j < i /\ handle[j] = "IntegrityError" /\ handle[i] = "ok"

\* C6: when two create_accounts1 calls insert the same account_id and the first
\* succeeded, the second's handle resolves as failed with the uniqueness
\* violation and the rows the first call wrote are in the store as written.
C6_DuplicateAccount ==
    \A a \in 1..Len(calls) : \A b \in 1..Len(calls) :
        (/\ a < b
         /\ handle[a] = "ok"
         /\ Resolved(b)
         /\ \E i \in 1..Len(calls[a].entries) : \E j \in 1..Len(calls[b].entries) :
               calls[a].entries[i].account_id = calls[b].entries[j].account_id) =>
            /\ handle[b] = "IntegrityError"
            /\ \A i \in 1..Len(calls[a].entries) :
                   \E r \in store.Accounts :
                       /\ AccountMatches(r, calls[a].entries[i])
                       /\ r.date_created = calls[a].unit.datas[i].date_created
                       /\ r.date_updated = calls[a].unit.datas[i].date_updated

C6_Witness ==
    \E a \in 1..Len(calls) : \E b \in 1..Len(calls) :
        /\ a < b
        /\ handle[a] = "ok" /\ handle[b] = "IntegrityError"
        /\ calls[a].caller # calls[b].caller
        /\ Len(calls[a].entries) = 1 /\ Len(calls[b].entries) = 1
        /\ calls[a].entries[1].account_id = calls[b].entries[1].account_id

\* Python's == on the values of the model (floats of the model are not integral).
PyIntOf(v) == IF v.t = "int" THEN v.n ELSE IF v.b THEN 1 ELSE 0

RECURSIVE PyEq(_, _)
PyEq(a, b) ==
    IF a.t \in {"bool", "int"} /\ b.t \in {"bool", "int"} THEN PyIntOf(a) = PyIntOf(b)
    ELSE IF a.t # b.t THEN FALSE
    ELSE CASE a.t = "none"  -> TRUE
           [] a.t = "float" -> a.repr = b.repr /\ a.repr # "nan"
           [] a.t = "str"   -> a.s = b.s
           [] a.t = "bytes" -> a.bs = b.bs
           [] a.t \in {"list", "tuple"} ->
                 /\ Len(a.items) = Len(b.items)
                 /\ \A i \in 1..Len(a.items) : PyEq(a.items[i], b.items[i])
           [] a.t = "dict" ->
                 /\ Len(a.pairs) = Len(b.pairs)
                 /\ \A i \in 1..Len(a.pairs) : \E j \in 1..Len(b.pairs) :
                       PyEq(a.pairs[i][1], b.pairs[j][1]) /\ PyEq(a.pairs[i][2], b.pairs[j][2])

\* The values JSON has a form of its own for: None, bool, int, finite float, str,
\* list, and dict with str keys, nested.
RECURSIVE JsonNative(_)
JsonNative(v) ==
    CASE v.t \in {"none", "bool", "int", "str"} -> TRUE
      [] v.t = "float" -> v.repr # "nan"
      [] v.t = "list"  -> \A i \in 1..Len(v.items) : JsonNative(v.items[i])
      [] v.t = "dict"  ->
            \A i \in 1..Len(v.pairs) :
                v.pairs[i][1].t = "str" /\ JsonNative(v.pairs[i][2])
      [] OTHER -> FALSE

\* The values json.dumps turns into a standard JSON text: as Serializable, without
\* NaN.
RECURSIVE JsonEncodable(_)
JsonEncodable(v) ==
    CASE v.t \in {"none", "bool", "int", "str"} -> TRUE
      [] v.t = "float" -> v.repr # "nan"
      [] v.t \in {"list", "tuple"} ->
            \A i \in 1..Len(v.items) : JsonEncodable(v.items[i])
      [] v.t = "dict" ->
            \A i \in 1..Len(v.pairs) :
                /\ v.pairs[i][1].t \in {"none", "bool", "int", "float", "str"}
                /\ v.pairs[i][1].t = "float" => v.pairs[i][1].repr # "nan"
                /\ JsonEncodable(v.pairs[i][2])
      [] OTHER -> FALSE

\* C8 as stated: after a successful create_wallet_datas1 of (k, v), for any value
\* v with a JSON representation (null, boolean, number, string, sequence,
\* mapping, nested), read_wallet_data1(k) equals v.
C8_AnyValue ==
    \A i \in 1..Len(calls) :
        (calls[i].op = "create_wallet_datas1" /\ handle[i] = "ok") =>
            \A e \in 1..Len(calls[i].entries) :
                JsonEncodable(calls[i].entries[e].value) =>
                    PyEq(read_wallet_data1(store, calls[i].entries[e].key),
                         calls[i].entries[e].value)

\* C8 (amended): after a successful create_wallet_datas1 of (k, v), where v is
\* built from None, booleans, integers, finite floats, strings, lists and dicts
\* with string keys, read_wallet_data1(k) equals v.
C8_RoundTrip ==
    \A i \in 1..Len(calls) :
        (calls[i].op = "create_wallet_datas1" /\ handle[i] = "ok") =>
            \A e \in 1..Len(calls[i].entries) :
                JsonNative(calls[i].entries[e].value) =>
                    PyEq(read_wallet_data1(store, calls[i].entries[e].key),
                         calls[i].entries[e].value)

C8_Witness ==
    /\ Len(calls) = 1 /\ handle[1] = "ok"
    /\ calls[1].entries[1].value =
          PyDict(<< <<PyStr("a"), PyList(<<None, PyFloat("1.5")>>)>> >>)
    /\ local["c2"].pc = "read" /\ local["c2"].key = K1
    /\ local["c2"].result = calls[1].entries[1].value

\* The bit of the flags word that the one-bit flag names, read by division.
FlagBit(flags, flag) == (flags \div flag) % 2

HasRow(db, key) == \E row \in db.WalletData : row.key = key

RowOf(db, key) == CHOOSE row \in db.WalletData : row.key = key

\* The step in which the writer finishes the unit it is running.
Finishes(i) == running = i /\ running' = 0

\* C5: no unit accepted by post_to_thread holds a malformed row: a WalletData
\* row whose key is no string, or a transaction row that the assertions of
\* create_transactions1 exclude.
C5_NoMalformedUnit ==
    \A i \in 1..Len(calls) : \A j \in 1..Len(calls[i].unit.datas) :
        LET row == calls[i].unit.datas[j]
        IN /\ calls[i].unit.query.table = "WalletData" => row.key.t = "str"
           /\ calls[i].unit.query.table = "Transactions" =>
                  /\ row.tx_hash.t = "bytes"
                  /\ row.tx_data # None
                  /\ FlagBit(row.flags, HasByteData) = 0
                  /\ row.date_created # None /\ row.date_updated # None

\* C7: a batch of a create operation that violates the primary key fails as a
\* unit: its handle resolves as failed and the store is as it was before the
\* batch, the rows preceding the offending one included.
C7_BatchAtomic ==
    [][\A i \in 1..Len(calls) :
          (/\ Finishes(i)
           /\ calls[i].unit.query.verb = "INSERT"
           /\ BatchViolates(store, calls[i].unit)) =>
              /\ handle'[i] = "IntegrityError"
              /\ store' = store]_vars

C7_Witness ==
    \E i \in 1..Len(calls) :
        /\ handle[i] = "IntegrityError"
        /\ Len(calls[i].entries) = 2
        /\ calls[i].entries[1].key # calls[i].entries[2].key
        /\ ~HasRow(store, calls[i].entries[1].key)
        /\ HasRow(store, calls[i].entries[2].key)

\* C9: when the writer finishes an update_wallet_datas1 of (k, v2) whose caller
\* had before it a successful create_wallet_datas1 of k, read_wallet_data1(k)
\* gives v2 and the row's date_updated is not before its date_created.
C9_CreateThenUpdate ==
    [][\A b \in 1..Len(calls) :
          (Finishes(b) /\ calls[b].op = "update_wallet_datas1") =>
              \A a \in 1..(b - 1) :
                  (/\ calls[a].op = "create_wallet_datas1"
                   /\ calls[a].caller = calls[b].caller
                   /\ handle[a] = "ok") =>
                      \A i \in 1..Len(calls[a].entries) : \A j \in 1..Len(calls[b].entries) :
                          calls[a].entries[i].key = calls[b].entries[j].key =>
                              /\ handle'[b] = "ok"
                              /\ PyEq(read_wallet_data1(store', calls[b].entries[j].key),
                                      calls[b].entries[j].value)
                              /\ RowOf(store', calls[b].entries[j].key).date_updated
                                    >= RowOf(store', calls[b].entries[j].key).date_created]_vars

C9_Witness ==
    \E a \in 1..Len(calls) : \E b \in 1..Len(calls) :
        /\ a < b
        /\ calls[a].caller = calls[b].caller
        /\ calls[a].op = "create_wallet_datas1" /\ handle[a] = "ok"
        /\ calls[b].op = "update_wallet_datas1" /\ handle[b] = "ok"
        /\ calls[a].entries[1].key = K1 /\ calls[b].entries[1].key = K1
        /\ HasRow(store, K1)
        /\ read_wallet_data1(store, K1) = PyStr("v2")
        /\ RowOf(store, K1).date_updated > RowOf(store, K1).date_created

\* C10: when the writer finishes an update_wallet_datas1, the handle resolves
\* as successful, no key of the batch that had no row has one afterwards, and
\* if no key of the batch had a row the store is unchanged.
C10_UpdateMissingKey ==
    [][\A b \in 1..Len(calls) :
          (Finishes(b) /\ calls[b].op = "update_wallet_datas1") =>
              /\ (\E j \in 1..Len(calls[b].entries) : ~HasRow(store, calls[b].entries[j].key))
                    => handle'[b] = "ok"
              /\ \A j \in 1..Len(calls[b].entries) :
                     ~HasRow(store, calls[b].entries[j].key)
                         => ~HasRow(store', calls[b].entries[j].key)
              /\ (\A j \in 1..Len(calls[b].entries) : ~HasRow(store, calls[b].entries[j].key))
                    => store' = store]_vars

C10_Witness ==
    \E b \in 1..Len(calls) :
        /\ calls[b].op = "update_wallet_datas1" /\ handle[b] = "ok"
        /\ Len(calls[b].entries) = 1
        /\ calls[b].entries[1].key = K2
        /\ ~HasRow(store, K2)
        /\ HasRow(store, K1)

\* The step in which caller c begins a call (and leaves it, if an assertion fails).
Begins(c) == ncalls' = ncalls + 1 /\ local'[c].pc \in {"built", "raised"} /\ local'[c].n = ncalls'

\* C3: a create_transactions1 whose batch has an entry with HasByteData set ends
\* in the assertion: nothing is posted to the writer, whatever well-formed
\* entries precede it, and the store is untouched; so no accepted unit of
\* create_transactions1 has such an entry.
C3_ByteDataFlagRejected ==
    /\ [][\A c \in Callers :
             (/\ Begins(c)
              /\ local'[c].op = "create_transactions1"
              /\ \E i \in 1..Len(local'[c].entries) :
                    FlagBit(local'[c].entries[i].flags, HasByteData) = 1) =>
                 /\ local'[c].pc = "raised"
                 /\ UNCHANGED <<calls, handle, queue, running, store>>]_vars
    /\ [](\A i \in 1..Len(calls) :
             calls[i].op = "create_transactions1" =>
                 \A j \in 1..Len(calls[i].entries) :
                     FlagBit(calls[i].entries[j].flags, HasByteData) = 0)

C3_Witness ==
    /\ local["c1"].pc = "raised"
    /\ local["c1"].op = "create_transactions1"
    /\ Len(local["c1"].entries) = 2
    /\ tx_asserts(local["c1"].entries[1])
    /\ local["c1"].entries[2].flags = HasByteData + STATE_CLEARED
    /\ local["c1"].entries[2].tx_hash.t = "bytes"
    /\ calls = <<>> /\ store = EmptyStore

\* C4: in every row create_transactions1 writes, HasHeight is set iff the
\* metadata's height is present, HasFee iff its fee is, HasPosition iff its
\* position is, whatever these bits were in the flags passed in.
C4_PresenceBitsDerived ==
    \A i \in 1..Len(calls) :
        calls[i].op = "create_transactions1" =>
            \A j \in 1..Len(calls[i].entries) :
                LET written == calls[i].unit.datas[j].flags
                    metadata == calls[i].entries[j].tx_data
                IN /\ FlagBit(written, HasHeight) = 1 <=> metadata.height # None
                   /\ FlagBit(written, HasFee) = 1 <=> metadata.fee # None
                   /\ FlagBit(written, HasPosition) = 1 <=> metadata.position # None
                   /\ handle[i] = "ok" =>
                          \E row \in store.Transactions :
                              /\ row.tx_hash = calls[i].entries[j].tx_hash
                              /\ row.flags = written

C4_Witness ==
    \E i \in 1..Len(calls) : \E j \in 1..Len(calls[i].entries) :
        /\ calls[i].op = "create_transactions1" /\ handle[i] = "ok"
        /\ calls[i].entries[j].flags = HasHeight + HasPosition + STATE_SETTLED
        /\ calls[i].entries[j].tx_data.height = None
        /\ calls[i].entries[j].tx_data.position # None
        /\ calls[i].entries[j].tx_data.fee # None
        /\ \E row \in store.Transactions :
              /\ row.tx_hash = calls[i].entries[j].tx_hash
              /\ row.flags = HasFee + HasPosition + STATE_SETTLED

\* The step in which caller c makes a read_wallet_data1.
Reads(c) == local'[c] # local[c] /\ local'[c].pc = "read"

\* C11: a read_wallet_data1 of a key that has no row returns None (it does not
\* raise), a read of a key that has one returns its decoded value, and every
\* read leaves the store, the writer's queue, the unit it is running and the
\* accepted units with their handles as they were.
C11_ReadAbsent ==
    [][\A c \in Callers :
          Reads(c) =>
              /\ ~HasRow(store, local'[c].key) => local'[c].result = None
              /\ HasRow(store, local'[c].key) =>
                     local'[c].result = loads(RowOf(store, local'[c].key).value)
              /\ UNCHANGED <<store, queue, running, calls, handle>>]_vars

C11_Witness ==
    /\ local["c2"].pc = "read"
    /\ local["c2"].key = K2
    /\ local["c2"].result = None
    /\ HasRow(store, K1)
    /\ ~HasRow(store, K2)

\* The accepted units that have left the queue and have not resolved: those the
\* writer is executing.
InExecution ==
    {i \in 1..Len(calls) : handle[i] = "pending" /\ \A q \in 1..Len(queue) : queue[q] # i}

\* C12: at every moment at most one accepted unit is executing, however many
\* callers have posted; a unit starts only when none is executing; and the
\* store changes only in the step that finishes the executing unit, and only in
\* the table of that unit's statement.
C12_OneAtATime ==
    /\ [](/\ Cardinality(InExecution) <= 1
          /\ running # 0 => InExecution = {running}
          /\ running = 0 => InExecution = {})
    /\ [][(running' # running /\ running' # 0) => running = 0]_vars
    /\ [][store' # store =>
             /\ running # 0 /\ running' = 0
             /\ \A tb \in Tables :
                    tb # calls[running].unit.query.table => store'[tb] = store[tb]]_vars

C12_Witness ==
    /\ running = 1
    /\ queue = <<2>>
    /\ calls[1].caller # calls[2].caller
    /\ calls[1].unit.query.table = calls[2].unit.query.table
    /\ handle[1] = "pending" /\ handle[2] = "pending"

\* C13: under a fair writer every accepted unit, whether its statement succeeds
\* or fails, has its handle resolved in the end; until then it is in the queue
\* or being executed; an accepted unit is never removed or altered; a handle
\* resolves only in the step that finishes its unit, and once resolved it stays
\* as it was resolved.
C13_EventuallyResolves ==
    /\ \A i \in 1..MaxCalls : (Len(calls) >= i) ~> (Len(calls) >= i /\ Resolved(i))
    /\ [](\A i \in 1..Len(calls) :
             handle[i] = "pending" =>
                 running = i \/ \E q \in 1..Len(queue) : queue[q] = i)
    /\ [][/\ Len(calls') >= Len(calls)
          /\ \A i \in 1..Len(calls) :
                 /\ calls'[i] = calls[i]
                 /\ Resolved(i) => handle'[i] = handle[i]
                 /\ (~Resolved(i) /\ handle'[i] # "pending") => Finishes(i)]_vars

C13_Witness ==
    /\ Len(calls) >= 2
    /\ \A i \in 1..Len(calls) : Resolved(i)
    /\ handle[1] = "ok" /\ handle[2] = "IntegrityError"
    /\ calls[1].caller # calls[2].caller
    /\ queue = <<>> /\ running = 0

\* The create operations that stamp their rows with the time of the call.
StampedCreates ==
    {"create_accounts1", "create_keys1", "create_master_keys1",
     "create_transaction_outputs1", "create_wallet_datas1"}

\* C14: the rows a stamped create builds all carry, as date_created and as
\* date_updated, the clock as it is read when the call begins; the rows
\* create_payment_requests1 builds carry their entry's date_created in both
\* columns; and the rows a successful unit leaves in the store are the rows
\* built at the call, however far the clock has advanced since.
C14_TimestampOnce ==
    /\ [][\A c \in Callers :
             (Begins(c) /\ local'[c].pc = "built" /\ local'[c].op \in StampedCreates) =>
                 \A j \in 1..Len(local'[c].unit.datas) :
                     /\ local'[c].unit.datas[j].date_created = clock
                     /\ local'[c].unit.datas[j].date_updated = clock]_vars
    /\ [][\A c \in Callers :
             (Begins(c) /\ local'[c].pc = "built"
                        /\ local'[c].op = "create_payment_requests1") =>
                 \A j \in 1..Len(local'[c].unit.datas) :
                     /\ local'[c].unit.datas[j].date_created = local'[c].entries[j].date_created
                     /\ local'[c].unit.datas[j].date_updated = local'[c].entries[j].date_created]_vars
    /\ [][\A i \in 1..Len(calls) :
             (/\ Finishes(i) /\ handle'[i] = "ok"
              /\ calls[i].op \in StampedCreates \cup {"create_payment_requests1"}) =>
                 \A j \in 1..Len(calls[i].unit.datas) :
                     calls[i].unit.datas[j] \in store'[calls[i].unit.query.table]]_vars

\* A batch of two stamped at time 0 by the first call begun, posted and executed
\* after a unit whose call began, and read the clock, at time 1.
C14_Witness ==
    /\ Len(calls) = 2
    /\ calls[2].n = 1 /\ calls[1].n = 2
    /\ handle[1] = "ok" /\ handle[2] = "ok"
    /\ calls[2].op = "create_transaction_outputs1"
    /\ calls[1].op = "create_wallet_datas1"
    /\ RowOf(store, K1).date_created = 1
    /\ Len(calls[2].entries) = 2
    /\ Cardinality(store.TransactionOutputs) = 2
    /\ \A row \in store.TransactionOutputs : row.date_created = 0 /\ row.date_updated = 0

\* C15: for the flags and metadata of every entry create_transactions1 accepts
\* (every flags word without HasByteData, every metadata tuple), the flags it
\* writes are the reconciled flags, and reconciling those again with the same
\* metadata gives them back unchanged.
C15_ReconcileIdempotent ==
    \A i \in 1..Len(calls) :
        calls[i].op = "create_transactions1" =>
            \A j \in 1..Len(calls[i].entries) :
                LET flags == calls[i].entries[j].flags
                    metadata == calls[i].entries[j].tx_data
                    once == tx_flags(flags, metadata)
                IN /\ calls[i].unit.datas[j].flags = once
                   /\ tx_flags(once, metadata) = once

C15_Witness ==
    \E i \in 1..Len(calls) : \E j \in 1..Len(calls[i].entries) :
        /\ calls[i].op = "create_transactions1"
        /\ calls[i].entries[j].flags = 1 + HasHeight + HasFee + STATE_CLEARED
        /\ calls[i].entries[j].tx_data.height = None
        /\ calls[i].entries[j].tx_data.fee # None
        /\ calls[i].entries[j].tx_data.position # None
        /\ calls[i].unit.datas[j].flags = 1 + HasFee + HasPosition + STATE_CLEARED
        /\ tx_flags(calls[i].unit.datas[j].flags, calls[i].entries[j].tx_data)
              = 1 + HasFee + HasPosition + STATE_CLEARED

\* An entry that one of the assertions on shape excludes: a tx_hash that is not
\* bytes, no byte payload, or a metadata without date_added or date_updated.
Misshapen(e) ==
    \/ e.tx_hash.t # "bytes"
    \/ e.tx_bytes = None
    \/ e.tx_data.date_added = None
    \/ e.tx_data.date_updated = None

\* C16: a create_transactions1 whose batch has a misshapen entry ends in the
\* assertion, whatever precedes that entry: nothing is posted to the writer and
\* the store is untouched; so every Transactions row in the store has a bytes
\* tx_hash, a payload and both dates.
C16_ShapeRejected ==
    /\ [][\A c \in Callers :
             (/\ Begins(c)
              /\ local'[c].op = "create_transactions1"
              /\ \E i \in 1..Len(local'[c].entries) : Misshapen(local'[c].entries[i])) =>
                 /\ local'[c].pc = "raised"
                 /\ UNCHANGED <<calls, handle, queue, running, store>>]_vars
    /\ [](\A row \in store.Transactions :
             /\ row.tx_hash.t = "bytes"
             /\ row.tx_data # None
             /\ row.date_created # None /\ row.date_updated # None)

C16_Witness ==
    /\ local["c1"].pc = "raised"
    /\ local["c1"].op = "create_transactions1"
    /\ Len(local["c1"].entries) = 2
    /\ ~Misshapen(local["c1"].entries[1])
    /\ local["c1"].entries[2].tx_data.date_added # None
    /\ local["c1"].entries[2].tx_data.date_updated = None
    /\ local["c1"].entries[2].tx_hash.t = "bytes"
    /\ local["c1"].entries[2].tx_bytes # None
    /\ calls = <<>> /\ queue = <<>> /\ store = EmptyStore

\* Whether unit i is a successful operation op with an entry for key.
Applied(i, op, key) ==
    /\ calls[i].op = op
    /\ handle[i] = "ok"
    /\ \E j \in 1..Len(calls[i].entries) : calls[i].entries[j].key = key

\* C17 as stated: in every reachable store, every WalletData row has
\* date_updated >= date_created, whatever the interleaving of the callers'
\* timestamp captures, their posts and the writer's steps.
C17_AnyInterleaving ==
    \A row \in store.WalletData : row.date_updated >= row.date_created

\* C17 (amended): a WalletData row has date_updated >= date_created unless it
\* was written by an update_wallet_datas1 whose call began, and captured its
\* timestamp, before the call of the create_wallet_datas1 that inserted the row
\* did, and which the writer executed after that create.
C17_OrderedCapture ==
    \A row \in store.WalletData :
        \/ row.date_updated >= row.date_created
        \/ \E a \in 1..Len(calls) : \E b \in 1..Len(calls) :
              /\ a < b
              /\ calls[a].caller # calls[b].caller
              /\ Applied(a, "create_wallet_datas1", row.key)
              /\ Applied(b, "update_wallet_datas1", row.key)
              /\ calls[b].n < calls[a].n
              /\ calls[a].unit.datas[1].date_created = row.date_created
              /\ calls[b].unit.datas[1].date_updated = row.date_updated

\* A create by one caller and a later-begun update by the other, both executed,
\* with the clock advanced between them.
C17_Witness ==
    \E a \in 1..Len(calls) : \E b \in 1..Len(calls) :
        /\ a < b
        /\ calls[a].caller # calls[b].caller
        /\ Applied(a, "create_wallet_datas1", K1)
        /\ Applied(b, "update_wallet_datas1", K1)
        /\ calls[a].n < calls[b].n
        /\ HasRow(store, K1)
        /\ RowOf(store, K1).date_created = 0
        /\ RowOf(store, K1).date_updated = 1

\* The flags word without its three bits of METADATA_FIELD_MASK.
OutsideMask(flags) ==
    flags - HasFee * FlagBit(flags, HasFee)
          - HasHeight * FlagBit(flags, HasHeight)
          - HasPosition * FlagBit(flags, HasPosition)

\* C18: in every row create_transactions1 builds, and in the row the store
\* holds once the unit has succeeded, the flags differ from the flags passed
\* in only within METADATA_FIELD_MASK: STATE_CLEARED, STATE_SETTLED and bit 0
\* (a bit TxFlags1 does not name) are as they came.
C18_OtherBitsKept ==
    \A i \in 1..Len(calls) :
        calls[i].op = "create_transactions1" =>
            \A j \in 1..Len(calls[i].entries) :
                LET flags == calls[i].entries[j].flags
                    written == calls[i].unit.datas[j].flags
                IN /\ OutsideMask(written) = OutsideMask(flags)
                   /\ FlagBit(written, STATE_CLEARED) = FlagBit(flags, STATE_CLEARED)
                   /\ FlagBit(written, STATE_SETTLED) = FlagBit(flags, STATE_SETTLED)
                   /\ FlagBit(written, 1) = FlagBit(flags, 1)
                   /\ handle[i] = "ok" =>
                          \E row \in store.Transactions :
                              /\ row.tx_hash = calls[i].entries[j].tx_hash
                              /\ OutsideMask(row.flags) = OutsideMask(flags)

C18_Witness ==
    \E i \in 1..Len(calls) : \E j \in 1..Len(calls[i].entries) :
        /\ calls[i].op = "create_transactions1" /\ handle[i] = "ok"
        /\ calls[i].entries[j].flags = 1 + HasFee + STATE_CLEARED + STATE_SETTLED
        /\ calls[i].entries[j].tx_data.fee = None
        /\ calls[i].entries[j].tx_data.height # None
        /\ \E row \in store.Transactions :
              /\ row.tx_hash = calls[i].entries[j].tx_hash
              /\ row.flags = 1 + HasHeight + STATE_CLEARED + STATE_SETTLED

\* The keys that have a row in WalletData.
KeysOf(db) == {row.key : row \in db.WalletData}

\* C19: when the writer finishes a successful update_wallet_datas1, the keys
\* present are the keys that were present, every row keeps its date_created, a
\* row whose key is not in the batch is as it was, a row whose key is in the
\* batch has the batch's encoded value and timestamp, and the other tables are
\* untouched.
C19_UpdateFrame ==
    [][\A b \in 1..Len(calls) :
          (Finishes(b) /\ calls[b].op = "update_wallet_datas1" /\ handle'[b] = "ok") =>
              /\ KeysOf(store') = KeysOf(store)
              /\ Cardinality(store'.WalletData) = Cardinality(store.WalletData)
              /\ \A tb \in Tables \ {"WalletData"} : store'[tb] = store[tb]
              /\ \A row \in store.WalletData :
                     LET after == RowOf(store', row.key)
                     IN /\ after.date_created = row.date_created
                        /\ (\A j \in 1..Len(calls[b].entries) :
                               calls[b].entries[j].key # row.key) => after = row
                        /\ \A j \in 1..Len(calls[b].entries) :
                               calls[b].entries[j].key = row.key =>
                                   /\ after.value = dumps(calls[b].entries[j].value)
                                   /\ after.date_updated
                                         = calls[b].unit.datas[j].date_updated]_vars

C19_Witness ==
    \E b \in 1..Len(calls) :
        /\ calls[b].op = "update_wallet_datas1" /\ handle[b] = "ok"
        /\ Len(calls[b].entries) = 1 /\ calls[b].entries[1].key = K1
        /\ KeysOf(store) = {K1, K2}
        /\ RowOf(store, K1).value = dumps(PyStr("v2"))
        /\ RowOf(store, K1).date_created = 0 /\ RowOf(store, K1).date_updated = 1
        /\ RowOf(store, K2).value = dumps(PyStr("v"))
        /\ RowOf(store, K2).date_created = 0 /\ RowOf(store, K2).date_updated = 0

====
